---- MODULE Spec2Model ----
(***************************************************************************)
(* Model of ProcessadorImagem (src/src/processamento_imagem.py).           *)
(*                                                                         *)
(* Spec         : _remover_ruido on binary grids, called once and then     *)
(*                again on its own result.                                 *)
(* SpecPipeline : __init__, from the load to imagem_processada, with the   *)
(*                parameters each stage derives from altura and largura.   *)
(* SpecGamma    : _correcao_gamma, from the mean brightness to the lookup  *)
(*                table.                                                   *)
(*                                                                         *)
(* Real-valued quantities are carried as scaled integers:                  *)
(*   limiar_min, limiar_max      in eighths (exact)                        *)
(*   gamma                       in units of 1/EscalaGamma                 *)
(*   base-2 logarithms           in units of 1/Escala (14 fractional bits) *)
(* Comparisons against numpy.pi are decided with a rational enclosure of   *)
(* pi, the filter and the properties using opposite ends of it.            *)
(***************************************************************************)
EXTENDS Integers, Sequences, FiniteSets, TLC

VARIABLES pc, altura, largura, imagem,
          n_labels, labels, stats, mascara, limiar_min, limiar_max, i,
          resultado, passada, primeiro,
          arquivo, imagem_original, estagios, tileGridSize, block_size,
          tamanho_kernel, imagem_processada, excecao,
          brilho, gamma, tabela

ruidoVars == <<n_labels, labels, stats, mascara, limiar_min, limiar_max, i,
               resultado, passada, primeiro>>

pipeVars == <<arquivo, imagem_original, estagios, tileGridSize, block_size,
              tamanho_kernel, imagem_processada>>

gammaVars == <<brilho, gamma, tabela>>

vars == <<pc, altura, largura, imagem, excecao, ruidoVars, pipeVars, gammaVars>>

(***************************************************************************)
(* Bounds of the model.                                                    *)
(***************************************************************************)
\* Largest height and width of the exhaustively enumerated binary grids.
MaxAltura == 3
MaxLargura == 3
\* Largest side of a loaded image.
MaxLado == 2100
\* Largest number of samples of the grayscale grids whose mean is taken.
MaxAmostras == 2

(***************************************************************************)
(* Grids.                                                                  *)
(***************************************************************************)
\* A grid of h rows and w columns is a sequence of h*w samples in raster
\* order; pixel k lies in row Linha(k, w) and column Coluna(k, w).
Pixels(h, w) == 1..(h * w)
Linha(k, w) == ((k - 1) \div w) + 1
Coluna(k, w) == ((k - 1) % w) + 1

Nenhum == <<>>

Max2(a, b) == IF a >= b THEN a ELSE b
Min2(a, b) == IF a <= b THEN a ELSE b

\* Pixels that are non-zero in cv2.bitwise_not(img): those that are not 255.
NaoZeroInvertido(img) == {p \in DOMAIN img : img[p] # 255}

\* The 8-connectivity neighbourhood of pixel p (p included) in a grid of
\* width w; rows outside the grid yield indices outside every pixel set.
Vizinhanca(p, w) ==
    LET c == Coluna(p, w)
    IN  {p + dr * w + dc : dr \in {-1, 0, 1},
                           dc \in {d \in {-1, 0, 1} : c + d >= 1 /\ c + d <= w}}

\* The pixels of Z reachable from the frontier F, S being those already found.
RECURSIVE Inundar(_, _, _, _)
Inundar(F, S, Z, w) ==
    LET N == ((UNION {Vizinhanca(p, w) : p \in F}) \cap Z) \ S
    IN  IF N = {} THEN S ELSE Inundar(N, S \cup N, Z, w)

\* First pixel of a non-empty set in raster order.
PrimeiroRaster(Z) == CHOOSE p \in Z : \A q \in Z : p <= q

\* The components of Z, in the order a raster scan first meets them.
RECURSIVE Componentes(_, _)
Componentes(Z, w) ==
    IF Z = {} THEN <<>>
    ELSE LET C == Inundar({PrimeiroRaster(Z)}, {PrimeiroRaster(Z)}, Z, w)
         IN  <<C>> \o Componentes(Z \ C, w)

\* One row of the stats table: CC_STAT_AREA, CC_STAT_WIDTH, CC_STAT_HEIGHT.
EstatisticasDe(C, w) ==
    IF C = {} THEN [area |-> 0, width |-> 0, height |-> 0]
    ELSE LET linhas == {Linha(p, w) : p \in C}
             colunas == {Coluna(p, w) : p \in C}
             maxl == CHOOSE r \in linhas : \A s \in linhas : s <= r
             minl == CHOOSE r \in linhas : \A s \in linhas : s >= r
             maxc == CHOOSE c \in colunas : \A d \in colunas : d <= c
             minc == CHOOSE c \in colunas : \A d \in colunas : d >= c
         IN  [area |-> Cardinality(C),
              width |-> maxc - minc + 1,
              height |-> maxl - minl + 1]

\* cv2.connectedComponentsWithStats(cv2.bitwise_not(img), connectivity=8):
\* label 0 is the background (the zero pixels of the inverted grid).
RotulosDe(img, w, Z, comps) ==
    [n_labels |-> Len(comps) + 1,
     labels |-> [p \in DOMAIN img |->
                    IF p \in Z
                    THEN CHOOSE k \in 1..Len(comps) : p \in comps[k]
                    ELSE 0],
     stats |-> [k \in 0..Len(comps) |->
                    IF k = 0 THEN EstatisticasDe(DOMAIN img \ Z, w)
                    ELSE EstatisticasDe(comps[k], w)]]

ComponentesConectados(img, w) ==
    LET Z == NaoZeroInvertido(img)
    IN  CHOOSE cc \in {RotulosDe(img, w, Z, comps) : comps \in {Componentes(Z, w)}} :
            TRUE

(***************************************************************************)
(* numpy.percentile(areas, [25, 75]) with linear interpolation.            *)
(***************************************************************************)
\* The areas sorted ascending.
RECURSIVE Ordenar(_)
Ordenar(s) ==
    IF Len(s) <= 1 THEN s
    ELSE LET m == CHOOSE k \in 1..Len(s) : \A j \in 1..Len(s) : s[k] <= s[j]
         IN  <<s[m]>> \o Ordenar([j \in 1..(Len(s) - 1) |->
                                      IF j < m THEN s[j] ELSE s[j + 1]])

\* Four times the q-th percentile (q in {25, 75}) of a non-empty sequence:
\* virtual index (n-1)*q/100, value a[j] + (a[j+1]-a[j])*frac.
Percentil4(areas, q) ==
    LET a == Ordenar(areas)
        n == Len(a)
        v4 == (n - 1) * (q \div 25)
        j == v4 \div 4
        r == v4 % 4
        lo == a[j + 1]
        hi == IF j + 2 <= n THEN a[j + 2] ELSE a[j + 1]
    IN  4 * lo + (hi - lo) * r

\* limiar_min and limiar_max, in eighths.
LimiarMin8(areas) ==
    LET q25 == Percentil4(areas, 25)
        q75 == Percentil4(areas, 75)
        iqr == q75 - q25
    IN  Max2(3 * 8, 2 * q25 - 3 * iqr)

LimiarMax8SemIqr(areas) == 2 * Percentil4(areas, 75)

LimiarMax8(areas) ==
    LET q25 == Percentil4(areas, 25)
        q75 == Percentil4(areas, 75)
        iqr == q75 - q25
    IN  2 * q75 + 3 * iqr

(***************************************************************************)
(* Comparisons with numpy.pi.  pi lies strictly between PiLo and PiHi.     *)
(***************************************************************************)
PiLo == [num |-> 314159, den |-> 100000]
PiHi == [num |-> 314160, den |-> 100000]

\* pi * k > n, for naturals k, n.
PiVezesMaior(k, n) == PiLo.num * k > PiLo.den * n
\* pi * k < n.
PiVezesMenor(k, n) == PiHi.num * k < PiHi.den * n

(***************************************************************************)
(* The combined filter of the component loop.                              *)
(***************************************************************************)
DentroDosLimiaresFrouxo(lmin, lmax, area) == lmin <= 8 * area /\ 8 * area <= lmax
DentroDosLimiares(lmin, lmax, area) == lmin < 8 * area /\ 8 * area < lmax

ProporcaoSemTeto(width, height) == 7 * height < 10 * width
Proporcao(width, height) == 7 * height < 10 * width /\ 10 * width < 13 * height

\* (width + height) * 0.25 > sqrt(area / pi)
RaioPlausivel(width, height, area) ==
    PiVezesMaior((width + height) * (width + height), 16 * area)

\* area > pi * (min(width, height)/2)**2 * 0.6
Solido(width, height, area) ==
    LET m == Min2(width, height) IN PiVezesMenor(3 * m * m, 20 * area)

Aceita(lmin, lmax, st) ==
    /\ DentroDosLimiares(lmin, lmax, st.area)
    /\ Proporcao(st.width, st.height)
    /\ RaioPlausivel(st.width, st.height, st.area)
    /\ Solido(st.width, st.height, st.area)

\* cv2.bitwise_and(img, img, mask=cv2.bitwise_not(masc)): the destination is
\* freshly allocated and zeroed, and written where the mask is non-zero.
AplicarMascaraSemInverter(img, masc) ==
    [p \in DOMAIN img |-> IF masc[p] # 0 THEN img[p] ELSE 0]
AplicarMascaraSoAceitos(img, masc) ==
    [p \in DOMAIN img |-> IF masc[p] = 255 THEN img[p] ELSE 255]
AplicarMascara(img, masc) ==
    [p \in DOMAIN img |-> IF masc[p] # 255 THEN img[p] ELSE 0]

\* The value returned when there is nothing to filter.
RetornoSemComponentesMascara(img, masc) == masc
RetornoSemComponentes(img, masc) == img

(***************************************************************************)
(* Input grids.                                                            *)
(***************************************************************************)
GradesBinarias(h, w) == [Pixels(h, w) -> {0, 255}]

\* Dark shapes drawn on a 3x3 block, as sets of <<row, column>>.
Formas ==
    { {},
      {<<2, 2>>},
      {<<1, 1>>, <<2, 1>>, <<3, 1>>},
      {<<1, 1>>, <<1, 2>>, <<1, 3>>},
      {<<1, 1>>, <<1, 2>>, <<1, 3>>, <<2, 1>>, <<3, 1>>},
      {<<1, 1>>, <<1, 2>>, <<1, 3>>, <<2, 1>>, <<3, 1>>, <<2, 2>>},
      {<<1, 2>>, <<2, 1>>, <<2, 2>>, <<2, 3>>, <<3, 2>>},
      {<<1, 1>>, <<1, 3>>, <<2, 1>>, <<2, 2>>, <<2, 3>>, <<3, 1>>, <<3, 3>>},
      {<<1, 1>>, <<1, 2>>, <<1, 3>>, <<2, 1>>, <<2, 3>>, <<3, 1>>, <<3, 2>>, <<3, 3>>},
      ((1..3) \X (1..3)) \ {<<3, 3>>},
      (1..3) \X (1..3) }

\* Two shapes side by side on a 3x7 grid, one white column between them.
GradeDeFormas(esq, dir) ==
    [p \in Pixels(3, 7) |->
        IF \/ <<Linha(p, 7), Coluna(p, 7)>> \in esq
           \/ <<Linha(p, 7), Coluna(p, 7) - 4>> \in dir
        THEN 0 ELSE 255]

(***************************************************************************)
(* _remover_ruido                                                          *)
(***************************************************************************)
PipelineParado ==
    /\ arquivo = Nenhum
    /\ imagem_original = "nenhuma"
    /\ estagios = <<>>
    /\ tileGridSize = 0
    /\ block_size = 0
    /\ tamanho_kernel = 0
    /\ imagem_processada = "nenhuma"

GammaParado ==
    /\ brilho = Nenhum
    /\ gamma = 0
    /\ tabela = Nenhum

RuidoInicial ==
    /\ n_labels = 0
    /\ labels = Nenhum
    /\ stats = Nenhum
    /\ mascara = Nenhum
    /\ limiar_min = 0
    /\ limiar_max = 0
    /\ i = 0
    /\ resultado = Nenhum

Init ==
    /\ pc = "remover_ruido"
    /\ \/ \E h \in 1..MaxAltura, w \in 1..MaxLargura :
             /\ altura = h
             /\ largura = w
             /\ imagem \in GradesBinarias(h, w)
       \/ \E esq \in Formas, dir \in Formas :
             /\ altura = 3
             /\ largura = 7
             /\ imagem = GradeDeFormas(esq, dir)
    /\ RuidoInicial
    /\ passada = 1
    /\ primeiro = Nenhum
    /\ excecao = "nenhuma"
    /\ PipelineParado
    /\ GammaParado

\* Lines 96-114: labeling, the empty mask, the early returns, the thresholds.
Rotular ==
    /\ pc = "remover_ruido"
    /\ \E cc \in {ComponentesConectados(imagem, largura)} :
       LET zeros == [p \in DOMAIN imagem |-> 0]
           areas == [k \in 1..(cc.n_labels - 1) |-> cc.stats[k].area]
       IN  /\ n_labels' = cc.n_labels
           /\ labels' = cc.labels
           /\ stats' = cc.stats
           /\ mascara' = zeros
           /\ IF cc.n_labels < 2 \/ Len(areas) = 0
              THEN /\ resultado' = RetornoSemComponentes(imagem, zeros)
                   /\ pc' = "retornou"
                   /\ UNCHANGED <<limiar_min, limiar_max, i>>
              ELSE /\ limiar_min' = LimiarMin8(areas)
                   /\ limiar_max' = LimiarMax8(areas)
                   /\ i' = 1
                   /\ pc' = "componentes"
                   /\ UNCHANGED resultado
    /\ UNCHANGED <<altura, largura, imagem, passada, primeiro, excecao,
                   pipeVars, gammaVars>>

\* Lines 116-127: one iteration of the loop over the non-background labels.
FiltrarComponente ==
    /\ pc = "componentes"
    /\ i < n_labels
    /\ mascara' = IF Aceita(limiar_min, limiar_max, stats[i])
                  THEN [p \in DOMAIN mascara |->
                           IF labels[p] = i THEN 255 ELSE mascara[p]]
                  ELSE mascara
    /\ i' = i + 1
    /\ UNCHANGED <<pc, altura, largura, imagem, n_labels, labels, stats,
                   limiar_min, limiar_max, resultado, passada, primeiro,
                   excecao, pipeVars, gammaVars>>

\* Lines 130-131.
Reaplicar ==
    /\ pc = "componentes"
    /\ i = n_labels
    /\ resultado' = AplicarMascara(imagem, mascara)
    /\ pc' = "retornou"
    /\ UNCHANGED <<altura, largura, imagem, n_labels, labels, stats, mascara,
                   limiar_min, limiar_max, i, passada, primeiro, excecao,
                   pipeVars, gammaVars>>

\* _remover_ruido(_remover_ruido(g)): the result is filtered again.
Refiltrar ==
    /\ pc = "retornou"
    /\ passada = 1
    /\ primeiro' = resultado
    /\ imagem' = resultado
    /\ passada' = 2
    /\ pc' = "remover_ruido"
    /\ n_labels' = 0
    /\ labels' = Nenhum
    /\ stats' = Nenhum
    /\ mascara' = Nenhum
    /\ limiar_min' = 0
    /\ limiar_max' = 0
    /\ i' = 0
    /\ resultado' = Nenhum
    /\ UNCHANGED <<altura, largura, excecao, pipeVars, gammaVars>>

Next == Rotular \/ FiltrarComponente \/ Reaplicar \/ Refiltrar

Spec == Init /\ [][Next]_vars

(***************************************************************************)
(* __init__ and processar_imagem: the load and the stages.  The content of *)
(* the grids is left out here; altura, largura and the parameters derived  *)
(* from them are kept, with the order in which the stages are entered.     *)
(***************************************************************************)
\* What cv2.imread yields: None for a path it cannot decode.
ImagemNula == [decodificada |-> FALSE]

Arquivos ==
    {ImagemNula} \cup
    {[decodificada |-> TRUE, altura |-> h, largura |-> w] :
        h \in 1..MaxLado, w \in {1, MaxLado}} \cup
    {[decodificada |-> TRUE, altura |-> h, largura |-> w] :
        h \in {1, MaxLado}, w \in 1..MaxLado} \cup
    {[decodificada |-> TRUE, altura |-> h, largura |-> h] : h \in 1..MaxLado}

\* int(x * 0.02) and int(x * 0.005) for a positive integer x: the float
\* products truncate to the integer quotients by 50 and by 200.
DoisPorCento(x) == x \div 50
MeioPorCento(x) == x \div 200

\* max(3, int(min(altura, largura) * 0.02) // 2 * 2 + 1)
BlockSize(h, w) == Max2(3, (DoisPorCento(Min2(h, w)) \div 2) * 2 + 1)

\* max(1, int(min(altura, largura) * 0.005)), plus one when even.
TamanhoKernelSemAjuste(h, w) == Max2(1, MeioPorCento(Min2(h, w)))
TamanhoKernel(h, w) ==
    LET t == Max2(1, MeioPorCento(Min2(h, w)))
    IN  IF t % 2 = 0 THEN t + 1 ELSE t

\* (8, 8) if max(altura, largura) < 2000 else (16, 16)
TileGridSize(h, w) == IF Max2(h, w) < 2000 THEN 8 ELSE 16

InitPipeline ==
    /\ pc = "__init__"
    /\ arquivo \in Arquivos
    /\ imagem_original = "nenhuma"
    /\ altura = 0
    /\ largura = 0
    /\ imagem = Nenhum
    /\ estagios = <<>>
    /\ tileGridSize = 0
    /\ block_size = 0
    /\ tamanho_kernel = 0
    /\ imagem_processada = "nenhuma"
    /\ excecao = "nenhuma"
    /\ RuidoInicial
    /\ passada = 0
    /\ primeiro = Nenhum
    /\ GammaParado

\* A load that takes whatever imread yields for an image.
CarregarSemVerificar ==
    /\ pc = "__init__"
    /\ imagem_original' = "carregada"
    /\ altura' = IF arquivo.decodificada THEN arquivo.altura ELSE 1
    /\ largura' = IF arquivo.decodificada THEN arquivo.largura ELSE 1
    /\ pc' = "_pre_processamento"
    /\ UNCHANGED <<imagem, excecao, arquivo, estagios, tileGridSize,
                   block_size, tamanho_kernel, imagem_processada,
                   ruidoVars, gammaVars>>

\* Lines 8-9 and 12-18: _carregar_imagem, then altura and largura.
Carregar ==
    /\ pc = "__init__"
    /\ IF ~arquivo.decodificada
       THEN /\ excecao' = "IOError"
            /\ pc' = "levantou"
            /\ UNCHANGED <<imagem_original, altura, largura>>
       ELSE /\ imagem_original' = "carregada"
            /\ altura' = arquivo.altura
            /\ largura' = arquivo.largura
            /\ pc' = "_pre_processamento"
            /\ UNCHANGED excecao
    /\ UNCHANGED <<imagem, arquivo, estagios, tileGridSize, block_size,
                   tamanho_kernel, imagem_processada, ruidoVars, gammaVars>>

\* Lines 28-33: grayscale conversion, then _correcao_gamma.
PreProcessamento ==
    /\ pc = "_pre_processamento"
    /\ estagios' = estagios \o <<"cinza", "gamma">>
    /\ pc' = "_aplicar_clahe"
    /\ UNCHANGED <<altura, largura, imagem, excecao, arquivo, imagem_original,
                   tileGridSize, block_size, tamanho_kernel,
                   imagem_processada, ruidoVars, gammaVars>>

\* Lines 53-67: CLAHE, then _reduzir_ruido.
AplicarClahe ==
    /\ pc = "_aplicar_clahe"
    /\ tileGridSize' = TileGridSize(altura, largura)
    /\ estagios' = Append(estagios, "clahe")
    /\ pc' = "_binarizar_imagem"
    /\ UNCHANGED <<altura, largura, imagem, excecao, arquivo, imagem_original,
                   block_size, tamanho_kernel, imagem_processada,
                   ruidoVars, gammaVars>>

\* Lines 69-78.
BinarizarImagem ==
    /\ pc = "_binarizar_imagem"
    /\ block_size' = BlockSize(altura, largura)
    /\ estagios' = Append(estagios, "binarizar")
    /\ pc' = "_aplicar_morfologia"
    /\ UNCHANGED <<altura, largura, imagem, excecao, arquivo, imagem_original,
                   tileGridSize, tamanho_kernel, imagem_processada,
                   ruidoVars, gammaVars>>

\* Lines 80-92.
AplicarMorfologia ==
    /\ pc = "_aplicar_morfologia"
    /\ tamanho_kernel' = TamanhoKernel(altura, largura)
    /\ estagios' = Append(estagios, "morfologia")
    /\ pc' = "_remover_ruido"
    /\ UNCHANGED <<altura, largura, imagem, excecao, arquivo, imagem_original,
                   tileGridSize, block_size, imagem_processada,
                   ruidoVars, gammaVars>>

\* Lines 26 and 10: _remover_ruido, whose result becomes imagem_processada.
RemoverRuido ==
    /\ pc = "_remover_ruido"
    /\ estagios' = Append(estagios, "ruido")
    /\ imagem_processada' = "mascara"
    /\ pc' = "concluido"
    /\ UNCHANGED <<altura, largura, imagem, excecao, arquivo, imagem_original,
                   tileGridSize, block_size, tamanho_kernel,
                   ruidoVars, gammaVars>>

NextPipeline ==
    \/ Carregar
    \/ PreProcessamento
    \/ AplicarClahe
    \/ BinarizarImagem
    \/ AplicarMorfologia
    \/ RemoverRuido

SpecPipeline == InitPipeline /\ [][NextPipeline]_vars

(***************************************************************************)
(* _correcao_gamma and _calcular_gamma, in fixed point.                    *)
(*                                                                         *)
(* With x = brilho/255 < 1, gamma = log(0.5)/log(x) = 1/log2(1/x), and     *)
(* (i/255)**(1/gamma) * 255 = 255 * 2**(-(1/gamma) * log2(255/i)).         *)
(***************************************************************************)
Escala == 2^14
EscalaGamma == 5 * 2^12

GammaMin == (2 * EscalaGamma) \div 5
GammaMax == 3 * EscalaGamma

\* The largest k with den * 2^k <= num, for num >= den >= 1.
RECURSIVE ExpoenteInteiro(_, _)
ExpoenteInteiro(num, den) ==
    IF 2 * den <= num THEN 1 + ExpoenteInteiro(num, 2 * den) ELSE 0

RECURSIVE Potencia2(_)
Potencia2(k) == IF k = 0 THEN 1 ELSE 2 * Potencia2(k - 1)

\* The fractional bits of log2(m/Escala), m in [Escala, 2*Escala), from bit
\* j on, by repeated squaring.
RECURSIVE BitsFracionarios(_, _)
BitsFracionarios(m, j) ==
    IF j > 14 THEN 0
    ELSE LET q == (m * m) \div Escala
         IN  IF q >= 2 * Escala
             THEN (Escala \div Potencia2(j)) + BitsFracionarios(q \div 2, j + 1)
             ELSE BitsFracionarios(q, j + 1)

\* log2(num/den) in units of 1/Escala, for num >= den >= 1.
Log2Fix(num, den) ==
    LET k == ExpoenteInteiro(num, den)
        m == (num * Escala) \div (den * Potencia2(k))
    IN  k * Escala + BitsFracionarios(m, 1)

\* log2(255/t) for the table values t = 1..255.
Log2Tabela == [t \in 1..255 |-> Log2Fix(255, t)]

\* a * b / Escala without leaving 32 bits, for a <= 2.5 * Escala.
MulEscala(a, b) == a * (b \div Escala) + (a * (b % Escala)) \div Escala

Clip(x, lo, hi) == IF x < lo THEN lo ELSE IF x > hi THEN hi ELSE x

\* _calcular_gamma for a grid of n samples whose sum is soma: the gamma
\* returned, or the exception math.log or the division raises.
CalcularGammaSemBrilhoAlto(soma, n) ==
    IF soma < 5 * n THEN [gamma |-> GammaMax, excecao |-> "nenhuma"]
    ELSE IF soma = 255 * n THEN [gamma |-> 0, excecao |-> "ZeroDivisionError"]
    ELSE [gamma |-> Clip((EscalaGamma * Escala) \div Log2Fix(255 * n, soma),
                         GammaMin, GammaMax),
          excecao |-> "nenhuma"]

CalcularGamma(soma, n) ==
    IF soma < 5 * n THEN [gamma |-> GammaMax, excecao |-> "nenhuma"]
    ELSE IF soma > 250 * n THEN [gamma |-> GammaMin, excecao |-> "nenhuma"]
    ELSE IF soma = 0 THEN [gamma |-> 0, excecao |-> "ValueError"]
    ELSE IF soma = 255 * n THEN [gamma |-> 0, excecao |-> "ZeroDivisionError"]
    ELSE [gamma |-> Clip((EscalaGamma * Escala) \div Log2Fix(255 * n, soma),
                         GammaMin, GammaMax),
          excecao |-> "nenhuma"]

\* astype('uint8') of a float that has been truncated to an integer.
Uint8(x) == x % 256

\* ((i/255.0)**(1.0/g)) * 255 truncated: the largest t in 0..255 with
\* t <= 255 * (i/255)**(1/g), i.e. with log2(255/t) >= (1/g) * log2(255/i).
EntradaTabela(idx, g) ==
    IF idx = 0 THEN Uint8(0)
    ELSE LET inv == (EscalaGamma * Escala) \div g
             y == MulEscala(inv, Log2Tabela[idx])
             T == {t \in 1..255 : Log2Tabela[t] >= y}
         IN  Uint8(Cardinality(T))

\* numpy.array([... for i in numpy.arange(0, 256)]).astype('uint8')
Tabela(g) == [idx \in 0..255 |-> EntradaTabela(idx, g)]

\* Grayscale grids are represented by their number of samples and their sum.
Brilhos ==
    {b \in [soma : 0..(255 * MaxAmostras), n : 1..MaxAmostras] :
        b.soma <= 255 * b.n}

InitGamma ==
    /\ pc = "_correcao_gamma"
    /\ brilho \in Brilhos
    /\ gamma = 0
    /\ tabela = Nenhum
    /\ excecao = "nenhuma"
    /\ altura = 0
    /\ largura = 0
    /\ imagem = Nenhum
    /\ RuidoInicial
    /\ passada = 0
    /\ primeiro = Nenhum
    /\ PipelineParado

\* Line 38 with lines 44-51.
ChamarCalcularGamma ==
    /\ pc = "_correcao_gamma"
    /\ LET r == CalcularGamma(brilho.soma, brilho.n)
       IN  /\ gamma' = r.gamma
           /\ excecao' = r.excecao
           /\ pc' = IF r.excecao = "nenhuma" THEN "tabela" ELSE "levantou"
    /\ UNCHANGED <<altura, largura, imagem, brilho, tabela, ruidoVars, pipeVars>>

\* Lines 40-42: the table, then cv2.LUT.
ConstruirTabela ==
    /\ pc = "tabela"
    /\ tabela' = Tabela(gamma)
    /\ pc' = "LUT"
    /\ UNCHANGED <<altura, largura, imagem, excecao, brilho, gamma,
                   ruidoVars, pipeVars>>

NextGamma == ChamarCalcularGamma \/ ConstruirTabela

SpecGamma == InitGamma /\ [][NextGamma]_vars

(***************************************************************************)
(* Properties of _remover_ruido.                                           *)
(***************************************************************************)
Retornou == pc = "retornou"

\* The loop has run over every non-background component.
LacoCompleto == n_labels >= 2 /\ i = n_labels

NaoFundo == 1..(n_labels - 1)

PixelsDe(k) == {p \in DOMAIN labels : labels[p] = k}

NaMascara(k) == \A p \in PixelsDe(k) : mascara[p] = 255
ForaDaMascara(k) == \A p \in PixelsDe(k) : mascara[p] = 0

\* The areas of the non-background components read as order statistics:
\* the j-th smallest area is the value with fewer than j areas below it and
\* at least j areas not above it.
EstatisticaDeOrdem(j) ==
    LET A == {stats[k].area : k \in NaoFundo}
    IN  CHOOSE v \in A :
            /\ Cardinality({k \in NaoFundo : stats[k].area < v}) < j
            /\ Cardinality({k \in NaoFundo : stats[k].area <= v}) >= j

\* Four times the quartile at position (n-1)*quarto/4, linearly interpolated.
Quartil4(quarto) ==
    LET n == n_labels - 1
        pos == (n - 1) * quarto
        j == (pos \div 4) + 1
        lo == EstatisticaDeOrdem(j)
        hi == EstatisticaDeOrdem(Min2(j + 1, n))
    IN  4 * lo + (pos % 4) * (hi - lo)

\* minThreshold = max(3, q25 - 1.5*iqr) and maxThreshold = q75 + 1.5*iqr,
\* in eighths.
MinThreshold8 == Max2(24, 2 * Quartil4(1) - 3 * (Quartil4(3) - Quartil4(1)))
MaxThreshold8 == 2 * Quartil4(3) + 3 * (Quartil4(3) - Quartil4(1))

TamanhoPlausivel(k) ==
    MinThreshold8 < 8 * stats[k].area /\ 8 * stats[k].area < MaxThreshold8

QuaseQuadrado(k) ==
    /\ 10 * stats[k].width > 7 * stats[k].height
    /\ 10 * stats[k].width < 13 * stats[k].height

\* (w+h)*0.25 > sqrt(a/pi), i.e. pi*(w+h)^2 > 16*a, decided with the upper
\* end of the enclosure of pi where the filter uses the lower one.
RaioMaiorQueOImplicado(k) ==
    LET wh == stats[k].width + stats[k].height
    IN  PiHi.num * wh * wh > PiHi.den * 16 * stats[k].area

\* a > pi*(min(w,h)/2)^2*0.6, i.e. 20*a > 3*pi*min(w,h)^2, decided with the
\* lower end of the enclosure.
SolidezSuficiente(k) ==
    LET m == Min2(stats[k].width, stats[k].height)
    IN  PiLo.den * 20 * stats[k].area > PiLo.num * 3 * m * m

QuatroCondicoes(k) ==
    /\ TamanhoPlausivel(k)
    /\ QuaseQuadrado(k)
    /\ RaioMaiorQueOImplicado(k)
    /\ SolidezSuficiente(k)

\* C1: with at least one non-background component, a pixel is 255 in the
\* output iff it is 255 in the input and belongs to an accepted component.
C1_SoComponentesAceitosFicam ==
    (Retornou /\ n_labels >= 2) =>
        \A p \in DOMAIN imagem :
            (resultado[p] = 255) <=> (imagem[p] = 255 /\ mascara[p] = 255)

DoisComponentes == n_labels = 3

C3_PremissaOriginal ==
    /\ DoisComponentes
    /\ \A k \in NaoFundo :
          TamanhoPlausivel(k) /\ QuaseQuadrado(k) /\ SolidezSuficiente(k)

C3_DoisParecidosAceitos ==
    (Retornou /\ C3_PremissaOriginal) =>
        \A k \in NaoFundo :
            /\ NaMascara(k)
            /\ \A p \in PixelsDe(k) : resultado[p] = imagem[p]

\* C3 amended: the same, for two components that also pass the radius test
\* (w+h)*0.25 > sqrt(a/pi).
C3_DoisParecidosAceitosComRaio ==
    (Retornou /\ C3_PremissaOriginal
              /\ \A k \in NaoFundo : RaioMaiorQueOImplicado(k)) =>
        \A k \in NaoFundo :
            /\ NaMascara(k)
            /\ \A p \in PixelsDe(k) : resultado[p] = imagem[p]

C3_Witness ==
    /\ Retornou
    /\ DoisComponentes
    /\ \A k \in NaoFundo : QuatroCondicoes(k) /\ NaMascara(k)
    /\ stats[1].area # stats[2].area

\* C4: filtering the result of the filter again returns the same grid.
C4_Idempotente ==
    (Retornou /\ passada = 2) => resultado = primeiro

C4_Witness ==
    /\ Retornou
    /\ passada = 2
    /\ LacoCompleto
    /\ \E k \in NaoFundo : NaMascara(k)
    /\ \E k \in NaoFundo : ForaDaMascara(k)

\* C5: on a grid without foreground the filter returns its input and never
\* stops short of returning, on the early return (one label) as well as
\* through the statistics and the component loop (the grid labeled on its
\* inverse).
Uniforme(v) == \A p \in DOMAIN imagem : imagem[p] = v

C5_SemPrimeiroPlanoIdentidade ==
    (Uniforme(0) \/ Uniforme(255)) =>
        /\ Retornou => resultado = imagem
        /\ ~Retornou => ENABLED (Rotular \/ FiltrarComponente \/ Reaplicar)
        /\ (Retornou /\ Uniforme(255)) => n_labels = 1
        /\ (Retornou /\ Uniforme(0)) =>
              n_labels = 2 /\ i = 2 /\ \A p \in DOMAIN mascara : mascara[p] = 0

C5_Witness ==
    /\ Retornou
    /\ Uniforme(0)
    /\ LacoCompleto
    /\ resultado = imagem
    /\ Cardinality(DOMAIN imagem) > 3

\* C9: on a binary grid the filter returns its input pixel for pixel, and
\* every pixel set in the mask is 0 in the input.
C9_SaidaIgualEntrada ==
    /\ Retornou => resultado = imagem
    /\ pc \in {"componentes", "retornou"} =>
          \A p \in DOMAIN mascara : mascara[p] = 255 => imagem[p] = 0

C9_Witness ==
    /\ Retornou
    /\ passada = 1
    /\ LacoCompleto
    /\ \E k \in NaoFundo : NaMascara(k)
    /\ \E k \in NaoFundo : ForaDaMascara(k)
    /\ \E p \in DOMAIN imagem : imagem[p] = 255

\* C10: when all non-background components have the same area A, limiar_max
\* is A and limiar_min is at least A, and the mask stays all zero; and no
\* component with area at most 3 is ever put in the mask.
MesmaArea ==
    \A k \in NaoFundo : stats[k].area = stats[1].area

C10_MesmaAreaOuPequenoRejeitado ==
    (pc \in {"componentes", "retornou"} /\ n_labels >= 2) =>
        /\ MesmaArea =>
              /\ limiar_max = 8 * stats[1].area
              /\ limiar_min >= 8 * stats[1].area
              /\ \A p \in DOMAIN mascara : mascara[p] = 0
        /\ \A k \in NaoFundo :
              (k < i /\ stats[k].area <= 3) => ForaDaMascara(k)

C10_Witness ==
    /\ Retornou
    /\ n_labels = 3
    /\ MesmaArea
    /\ stats[1].area > 3
    /\ \A k \in NaoFundo :
          /\ QuaseQuadrado(k)
          /\ RaioMaiorQueOImplicado(k)
          /\ SolidezSuficiente(k)
          /\ ForaDaMascara(k)

(***************************************************************************)
(* Properties of the pipeline.                                             *)
(***************************************************************************)
Impar(x) == x % 2 = 1

EstagiosEmOrdem == <<"cinza", "gamma", "clahe", "binarizar", "morfologia", "ruido">>

Prefixo(s, t) == Len(s) <= Len(t) /\ \A k \in 1..Len(s) : s[k] = t[k]

\* C7: for every height and width >= 1 the block size is
\* max(3, floor(min(height,width)*0.02/2)*2+1), odd and at least 3, and the
\* kernel size is odd and at least 1.
C7_TamanhosImpares ==
    /\ "binarizar" \in {estagios[k] : k \in 1..Len(estagios)} =>
          /\ block_size = Max2(3, (Min2(altura, largura) \div 100) * 2 + 1)
          /\ Impar(block_size)
          /\ block_size >= 3
    /\ "morfologia" \in {estagios[k] : k \in 1..Len(estagios)} =>
          /\ Impar(tamanho_kernel)
          /\ tamanho_kernel >= 1
          /\ tamanho_kernel \in {Min2(altura, largura) \div 200,
                                 (Min2(altura, largura) \div 200) + 1}

C7_Witness ==
    /\ pc = "concluido"
    /\ block_size > 3
    /\ tamanho_kernel > 1
    /\ (Min2(altura, largura) \div 200) % 2 = 0

\* C8: when the loader cannot decode the path, IOError reaches the caller
\* with no stage entered, no processed grid and no image substituted; when
\* it can, the stages are entered once each, in the fixed order.
C8_CargaFalhaAntesDeTudo ==
    /\ ~arquivo.decodificada =>
          /\ estagios = <<>>
          /\ imagem_processada = "nenhuma"
          /\ imagem_original = "nenhuma"
          /\ pc \in {"__init__", "levantou"}
          /\ pc = "levantou" => excecao = "IOError"
    /\ arquivo.decodificada =>
          /\ excecao = "nenhuma"
          /\ Prefixo(estagios, EstagiosEmOrdem)
          /\ pc = "concluido" =>
                estagios = EstagiosEmOrdem /\ imagem_processada = "mascara"
          /\ pc # "concluido" => imagem_processada = "nenhuma"

C8_Witness ==
    /\ pc = "levantou"
    /\ excecao = "IOError"
    /\ ~arquivo.decodificada
    /\ estagios = <<>>

(***************************************************************************)
(* Properties of the gamma correction.                                     *)
(***************************************************************************)
GammaCalculado == pc \in {"tabela", "LUT", "levantou"}

\* With r = 255/brilho = 255*n/soma: 1/log2(r) >= 3 iff r^3 <= 2, and
\* 1/log2(r) <= 0.4 iff r^2 >= 32.
FormulaAcimaDoTeto == (255 * brilho.n) * (255 * brilho.n) * (255 * brilho.n)
                          <= 2 * brilho.soma * brilho.soma * brilho.soma
FormulaAbaixoDoPiso == (255 * brilho.n) * (255 * brilho.n)
                          >= 32 * brilho.soma * brilho.soma

\* C6: gamma is 3.0 for brilho < 5 and 0.4 for brilho > 250; otherwise it is
\* log(0.5)/log(brilho/255) clipped into [0.4, 3.0] (3.0 exactly where the
\* formula is at least 3, 0.4 exactly where it is at most 0.4, 1.0 at
\* brilho = 127.5), no logarithm of zero is taken and no division by zero
\* made; the lookup table is non-decreasing, from 0 at index 0 to 255 at
\* index 255.
C6_GammaETabela ==
    /\ excecao = "nenhuma"
    /\ pc # "levantou"
    /\ GammaCalculado =>
          /\ brilho.soma < 5 * brilho.n => gamma = GammaMax
          /\ brilho.soma > 250 * brilho.n => gamma = GammaMin
          /\ (brilho.soma >= 5 * brilho.n /\ brilho.soma <= 250 * brilho.n) =>
                /\ gamma >= GammaMin
                /\ gamma <= GammaMax
                /\ FormulaAcimaDoTeto => gamma = GammaMax
                /\ FormulaAbaixoDoPiso => gamma = GammaMin
                /\ (~FormulaAcimaDoTeto /\ ~FormulaAbaixoDoPiso) =>
                      (gamma > GammaMin /\ gamma < GammaMax)
                /\ 2 * brilho.soma = 255 * brilho.n => gamma = EscalaGamma
    /\ pc = "LUT" =>
          /\ tabela[0] = 0
          /\ tabela[255] = 255
          /\ \A idx \in 0..254 : tabela[idx] <= tabela[idx + 1]

C6_Witness ==
    /\ pc = "LUT"
    /\ brilho.soma >= 5 * brilho.n
    /\ brilho.soma <= 250 * brilho.n
    /\ gamma > GammaMin
    /\ gamma < GammaMax
    /\ gamma # EscalaGamma
    /\ tabela[128] # 128
    /\ tabela[255] = 255

====
